---------------------------- MODULE Spec2Model ----------------------------
(***************************************************************************)
(* A model of src/src/wocky-http-proxy.c: the HTTP CONNECT request         *)
(* builder, the reply parser, and the two drivers of the tunnel attempt    *)
(* (wocky_http_proxy_connect, blocking, and wocky_http_proxy_connect_async *)
(* with its callbacks and _finish, suspendable).                           *)
(*                                                                         *)
(* Byte strings are sequences of one-character strings; CR, LF and the     *)
(* other control characters are named tokens.  A C string is the sequence  *)
(* of its bytes before the terminating NUL; a read at or past the end of   *)
(* the sequence yields NUL.                                                *)
(***************************************************************************)
EXTENDS Integers, Sequences, FiniteSets, TLC

CR  == "CR"
LF  == "LF"
TAB == "TAB"
NUL == "NUL"
SP  == " "

Digits == {"0", "1", "2", "3", "4", "5", "6", "7", "8", "9"}

DigitVal(c) ==
  CASE c = "0" -> 0 [] c = "1" -> 1 [] c = "2" -> 2 [] c = "3" -> 3
    [] c = "4" -> 4 [] c = "5" -> 5 [] c = "6" -> 6 [] c = "7" -> 7
    [] c = "8" -> 8 [] c = "9" -> 9

\* F(e), with e evaluated once, before F is applied to its value.
Once(F(_), e) == CHOOSE y \in {F(x) : x \in {e}} : TRUE

\* *(buffer + i - 1): the i-th byte of a C string, NUL at and past its end.
CharAt(buffer, i) == IF i >= 1 /\ i <= Len(buffer) THEN buffer[i] ELSE NUL

\* The part of a string from position i on (the C pointer buffer + i - 1).
From(buffer, i) == IF i > Len(buffer) THEN << >> ELSE SubSeq(buffer, i, Len(buffer))

(***************************************************************************)
(* Literals of the source.                                                 *)
(***************************************************************************)
\* "HTTP/1." of strncmp (buffer, "HTTP/1.", 7)
HTTP_1_ == <<"H", "T", "T", "P", "/", "1", ".">>

\* #define HTTP_END_MARKER "\r\n\r\n"
HTTP_END_MARKER == <<CR, LF, CR, LF>>

\* The set of characters of a string: what GLib's scan_for_chars looks for
\* when it is given stop_chars.
CharsOf(s) == {s[i] : i \in 1..Len(s)}

(***************************************************************************)
(* libc: strncmp, atoi.                                                    *)
(***************************************************************************)
\* strncmp (buffer, lit, Len(lit)) == 0
strncmp_eq(buffer, lit) ==
  \A i \in 1..Len(lit) : CharAt(buffer, i) = lit[i]

\* The characters isspace() accepts in the C locale.
WhiteSpace == {SP, TAB, LF, CR, "VT", "FF"}

RECURSIVE SkipWhile(_, _, _)
\* while (set contains *ptr) ptr++;  the index where the loop stops
SkipWhile(buffer, i, set) ==
  IF CharAt(buffer, i) \in set THEN SkipWhile(buffer, i + 1, set) ELSE i

\* What atoi does with a digit run whose value an int cannot hold.  The C
\* standard leaves it undefined; the C libraries the program is built with
\* do one of two things.  "truncates": (int) strtol (...) with a 64-bit
\* long, the value is reduced modulo 2^32.  "saturates": strtol with a
\* 32-bit long, the value is LONG_MAX or LONG_MIN.
AtoiOverflows == {"truncates", "saturates"}

VARIABLE
  libc        \* how the atoi of this build treats overflow (fixed by Init)

INT_MAX == 2147483647
INT_MIN == 0 - INT_MAX - 1

\* Decimal accumulation modulo 2^32 in two 16-bit limbs <<hi, lo>>.
RECURSIVE AccDigits(_, _, _)
AccDigits(buffer, i, acc) ==
  IF CharAt(buffer, i) \in Digits
  THEN LET lo1 == acc[2] * 10 + DigitVal(CharAt(buffer, i))
           hi1 == acc[1] * 10 + (lo1 \div 65536)
       IN  Once(LAMBDA acc1 : AccDigits(buffer, i + 1, acc1),
                <<hi1 % 65536, lo1 % 65536>>)
  ELSE acc

\* The digit run at i has a value of 2^32 or more: the accumulation carries
\* out of the two limbs.
RECURSIVE Carries(_, _, _)
Carries(buffer, i, acc) ==
  IF CharAt(buffer, i) \in Digits
  THEN LET lo1 == acc[2] * 10 + DigitVal(CharAt(buffer, i))
           hi1 == acc[1] * 10 + (lo1 \div 65536)
       IN  \/ hi1 >= 65536
           \/ Once(LAMBDA acc1 : Carries(buffer, i + 1, acc1),
                   <<hi1 % 65536, lo1 % 65536>>)
  ELSE FALSE

\* The limbs as a 32-bit two's complement int.
ToInt32(acc) ==
  IF acc[1] >= 32768 THEN (acc[1] - 65536) * 65536 + acc[2]
  ELSE acc[1] * 65536 + acc[2]

\* Negation of a 32-bit int, wrapping.
Neg32(v) == IF v = -2147483647 - 1 THEN v ELSE 0 - v

\* The signed value of the digit run at q with limbs acc is not an int:
\* its magnitude is above INT_MAX, or above 2^31 behind a minus sign.
OutOfRange(buffer, q, neg, acc) ==
  \/ Carries(buffer, q, <<0, 0>>)
  \/ (acc[1] >= 32768 /\ ~(neg /\ acc = <<32768, 0>>))

\* atoi (buffer + i - 1): skips white space, takes an optional sign and the
\* digits that follow; the value is (int) strtol (...), for digit runs of
\* at most 19 digits (they fit a 64-bit long).
atoi(buffer, i) ==
  LET p == SkipWhile(buffer, i, WhiteSpace)
      c == CharAt(buffer, p)
      q == IF c \in {"+", "-"} THEN p + 1 ELSE p
  IN  Once(LAMBDA acc :
             IF libc = "saturates" /\ OutOfRange(buffer, q, c = "-", acc)
             THEN IF c = "-" THEN INT_MIN ELSE INT_MAX
             ELSE IF c = "-" THEN Neg32(ToInt32(acc)) ELSE ToInt32(acc),
           AccDigits(buffer, q, <<0, 0>>))

\* strchr (buffer + i - 1, c): the index of the first c from i on, 0 for NULL.
RECURSIVE strchr(_, _, _)
strchr(buffer, i, c) ==
  IF i > Len(buffer) THEN 0
  ELSE IF buffer[i] = c THEN i
  ELSE strchr(buffer, i + 1, c)

(***************************************************************************)
(* GError values.                                                          *)
(***************************************************************************)
\* A message: the format text and, for "%i %s", its two arguments.
Msg(text) == [text |-> text, err_code |-> 0, msg |-> << >>]

\* error == NULL
NoError == [domain |-> "none", code |-> "none", message |-> Msg("none")]

GError(domain, code, message) ==
  [domain |-> domain, code |-> code, message |-> message]

MSG_BAD_REPLY == Msg("Bad HTTP proxy reply")
MSG_BROKEN    == Msg("Connection failed due to broken HTTP reply")
MSG_CLOSED    == Msg("HTTP proxy server closed connection unexpectedly.")
MSG_AUTH_FAILED   == Msg("HTTP proxy authentication failed")
MSG_AUTH_REQUIRED == Msg("HTTP proxy authentication required")

\* "HTTP proxy connection failed: %i %s"
MsgFailed(err_code, msg) ==
  [text |-> "HTTP proxy connection failed: %i %s", err_code |-> err_code, msg |-> msg]

Cancelled ==
  GError("G_IO_ERROR", "G_IO_ERROR_CANCELLED", Msg("Operation was cancelled"))

(***************************************************************************)
(* check_reply                                                             *)
(***************************************************************************)
\* (variant: the lower bound is off by one)
StatusIsFailure_le(err_code) == err_code <= 200 \/ err_code >= 300

\* if (err_code < 200 || err_code >= 300)
StatusIsFailure(err_code) == err_code < 200 \/ err_code >= 300

\* (variant: the two 407 branches are swapped)
ReplyFailure_swapped(buffer, has_cred, err_code, p) ==
  LET d         == SkipWhile(buffer, p, Digits)
      msg_start == SkipWhile(buffer, d, {SP})
      cr        == strchr(buffer, msg_start, CR)
      end       == IF cr = 0 THEN Len(buffer) + 1 ELSE cr
      msg       == SubSeq(buffer, msg_start, end - 1)
  IN  IF err_code = 407
      THEN IF ~has_cred
           THEN GError("G_IO_ERROR", "G_IO_ERROR_PROXY_AUTH_FAILED", MSG_AUTH_FAILED)
           ELSE GError("G_IO_ERROR", "G_IO_ERROR_PROXY_NEED_AUTH", MSG_AUTH_REQUIRED)
      ELSE IF msg = << >>
      THEN GError("G_IO_ERROR", "G_IO_ERROR_PROXY_FAILED", MSG_BROKEN)
      ELSE GError("G_IO_ERROR", "G_IO_ERROR_PROXY_FAILED", MsgFailed(err_code, msg))

\* (variant: the spaces before the reason phrase are not skipped)
ReplyFailure_noskip(buffer, has_cred, err_code, p) ==
  LET d         == SkipWhile(buffer, p, Digits)
      msg_start == d
      cr        == strchr(buffer, msg_start, CR)
      end       == IF cr = 0 THEN Len(buffer) + 1 ELSE cr
      msg       == SubSeq(buffer, msg_start, end - 1)
  IN  IF err_code = 407
      THEN IF has_cred
           THEN GError("G_IO_ERROR", "G_IO_ERROR_PROXY_AUTH_FAILED", MSG_AUTH_FAILED)
           ELSE GError("G_IO_ERROR", "G_IO_ERROR_PROXY_NEED_AUTH", MSG_AUTH_REQUIRED)
      ELSE IF msg = << >>
      THEN GError("G_IO_ERROR", "G_IO_ERROR_PROXY_FAILED", MSG_BROKEN)
      ELSE GError("G_IO_ERROR", "G_IO_ERROR_PROXY_FAILED", MsgFailed(err_code, msg))

\* The branch taken for a failing status: lines 134-170.
ReplyFailure(buffer, has_cred, err_code, p) ==
  LET d         == SkipWhile(buffer, p, Digits)
      msg_start == SkipWhile(buffer, d, {SP})
      cr        == strchr(buffer, msg_start, CR)
      end       == IF cr = 0 THEN Len(buffer) + 1 ELSE cr
      msg       == SubSeq(buffer, msg_start, end - 1)
  IN  IF err_code = 407
      THEN IF has_cred
           THEN GError("G_IO_ERROR", "G_IO_ERROR_PROXY_AUTH_FAILED", MSG_AUTH_FAILED)
           ELSE GError("G_IO_ERROR", "G_IO_ERROR_PROXY_NEED_AUTH", MSG_AUTH_REQUIRED)
      ELSE IF msg = << >>
      THEN GError("G_IO_ERROR", "G_IO_ERROR_PROXY_FAILED", MSG_BROKEN)
      ELSE GError("G_IO_ERROR", "G_IO_ERROR_PROXY_FAILED", MsgFailed(err_code, msg))

\* (variant: the minor version is not looked at)
BadVersion_major_only(buffer) == ~strncmp_eq(buffer, HTTP_1_)

\* if (strncmp (buffer, "HTTP/1.", 7) != 0 || (*ptr != '0' && *ptr != '1'))
BadVersion(buffer) ==
  \/ ~strncmp_eq(buffer, HTTP_1_)
  \/ (CharAt(buffer, 8) # "0" /\ CharAt(buffer, 8) # "1")

\* check_reply (buffer, has_cred, &error): [ok |-> the gboolean, error |-> *error]
check_reply(buffer, has_cred) ==
  IF BadVersion(buffer)
  THEN [ok |-> FALSE,
        error |-> GError("G_IO_ERROR", "G_IO_ERROR_PROXY_FAILED", MSG_BAD_REPLY)]
  ELSE Once(LAMBDA p :
              Once(LAMBDA err_code :
                     IF StatusIsFailure(err_code)
                     THEN [ok |-> FALSE,
                           error |-> ReplyFailure(buffer, has_cred, err_code, p)]
                     ELSE [ok |-> TRUE, error |-> NoError],
                   atoi(buffer, p)),
            SkipWhile(buffer, 9, {SP}))


(***************************************************************************)
(* create_request                                                          *)
(*                                                                         *)
(* The request is kept as the sequence of its lines, each line one unit of *)
(* transfer: <<header, arguments>>.  strlen (buffer) is the number of      *)
(* units.                                                                  *)
(* A NULL gchar* is NullStr; the empty string "" is a different value.     *)
(***************************************************************************)
NullStr == "NULL"

\* g_base64_encode (cred): kept symbolic; it is injective.
g_base64_encode(cred) == <<"base64">> \o cred

\* if (username != NULL && password != NULL)
HasCredentials(username, password) == username # NullStr /\ password # NullStr

\* create_request (proxy_address, &has_cred):
\* [request |-> the returned string, has_cred |-> *has_cred]
create_request(hostname, port, username, password) ==
  LET head == << <<"CONNECT", <<hostname, port>> >>,
                 <<"Host", <<hostname, port>> >>,
                 <<"Proxy-Connection", <<"keep-alive">> >>,
                 <<"User-Agent", <<"GLib">> >> >>
      auth == IF HasCredentials(username, password)
              THEN << <<"Proxy-Authorization",
                        g_base64_encode(<<username, ":", password>>)>> >>
              ELSE << >>
  IN  [request   |-> head \o auth \o << <<"CRLF", << >> >> >>,
       has_cred  |-> HasCredentials(username, password)]

(***************************************************************************)
(* GDataInputStream: read_until with stop_chars.  The stream stops at the  *)
(* first byte that is ANY of the characters of stop_chars (GLib's          *)
(* scan_for_chars), not at the first occurrence of the whole string.       *)
(***************************************************************************)
RECURSIVE scan_for_chars(_, _, _)
\* index of the first byte of buf, from i on, that is in stop; 0 if none
scan_for_chars(buf, i, stop) ==
  IF i > Len(buf) THEN 0
  ELSE IF buf[i] \in stop THEN i
  ELSE scan_for_chars(buf, i + 1, stop)

\* A gchar* result: NULL, or a string.
Null   == [null |-> TRUE,  s |-> << >>]
Ptr(s) == [null |-> FALSE, s |-> s]

\* g_data_input_stream_read_until (blocking) once the buffered bytes `buf`
\* hold a stop character at index pos: the bytes before it are returned
\* (an empty string when pos = 1) and the stop character itself is consumed.
ReadUntilFound(buf, pos) ==
  [line |-> Ptr(SubSeq(buf, 1, pos - 1)), rest |-> From(buf, pos + 1)]

\* g_data_input_stream_read_until_finish once a stop character is found at
\* pos: g_data_input_stream_read_complete (task, read_length = pos - 1, 0)
\* returns NULL when read_length is 0, and never consumes the stop character.
ReadUntilFoundAsync(buf, pos) ==
  [line |-> IF pos - 1 = 0 THEN Null ELSE Ptr(SubSeq(buf, 1, pos - 1)),
   rest |-> From(buf, pos)]

\* Either variant at end of stream: NULL when nothing is buffered, otherwise
\* everything buffered, without an error.
ReadUntilEof(buf) ==
  [line |-> IF Len(buf) = 0 THEN Null ELSE Ptr(buf), rest |-> << >>]


(***************************************************************************)
(* Inputs of the drivers.                                                  *)
(***************************************************************************)
\* The longest single transfer of a read, in bytes; a write transfers any
\* number of its units.
MaxFill == 6

Str_HTTP11 == HTTP_1_ \o <<"1">>
Str_HTTP10 == HTTP_1_ \o <<"0">>

\* What the proxy may send before the end of the header block.
Heads ==
  { << >>,
    Str_HTTP11 \o <<SP, "2", "0", "0", SP, "O", "K">>,
    Str_HTTP10 \o <<SP, "4", "0", "7", SP, "N", "o">>,
    Str_HTTP11 \o <<SP, "4", "0", "7">>,
    Str_HTTP11 \o <<SP, "4", "0", "4", SP, "N", "F">>,
    Str_HTTP11 \o <<SP, "5", "0", "0">>,
    <<"G", "A", "R", "B", "A", "G", "E">> }

\* ... and how the header block ends: not at all, after one line, properly.
Tails == { << >>, <<CR, LF>>, HTTP_END_MARKER }

\* What the far end of the tunnel sends right after the header block.
Payloads == { << >>, <<"D">> }

\* What follows the last byte: end of stream, a transport error, nothing.
Ends == {"eof", "error", "stall"}

\* The transport accepts this many units of the request and then fails every
\* write; NoBreak: it never fails.
NoBreak == 0 - 1
WriteBreaks == {NoBreak, 0, 2}

\* g_tls_client_connection_new and the handshake: both succeed, the first
\* fails, the second fails.
TlsCases == {"ok", "new_fails", "handshake_fails"}

TlsNewError ==
  GError("G_TLS_ERROR", "G_TLS_ERROR_UNAVAILABLE", Msg("TLS support is not available"))
HandshakeError ==
  GError("G_TLS_ERROR", "G_TLS_ERROR_BAD_CERTIFICATE", Msg("Unacceptable TLS certificate"))
WriteError ==
  GError("G_IO_ERROR", "G_IO_ERROR_BROKEN_PIPE", Msg("Error sending data"))
ReadError ==
  GError("G_IO_ERROR", "G_IO_ERROR_CONNECTION_CLOSED", Msg("Error receiving data"))

\* g_proxy_address_get_username and _get_password: NULL, "", or a name.
Usernames == {NullStr, "", "u"}
Passwords == {NullStr, "", "p"}

\* One exchange: the variant (WOCKY_IS_HTTPS_PROXY), the proxy address, the
\* behaviour of the TLS layer, of the transport and of the proxy, and which
\* driver(s) the exchange is played against.  "both": the blocking driver and
\* then the suspendable one, with cancellable == NULL; "blocking" and
\* "suspendable": that driver alone, with a cancellable that may be triggered.
Scenarios ==
  { sc \in [https : BOOLEAN, tls : TlsCases,
            username : Usernames, password : Passwords,
            wbreak : WriteBreaks, head : Heads, tail : Tails, payload : Payloads,
            end : Ends,
            run : {"both", "blocking", "suspendable"}] :
      /\ (~sc.https => sc.tls = "ok")
      \* when the attempt ends before the read, one proxy script is enough
      /\ ((sc.wbreak # NoBreak \/ sc.tls # "ok")
            => (sc.head = << >> /\ sc.tail = << >> /\ sc.end = "eof"))
      \* the tunnel carries data only behind a complete header block
      /\ (sc.payload # << >> => sc.tail = HTTP_END_MARKER) }

\* The bytes the proxy sends.
Script(sc) == sc.head \o sc.tail \o sc.payload


(***************************************************************************)
(* State.                                                                  *)
(***************************************************************************)
VARIABLES
  sc,         \* the exchange being played (fixed by Init)
  cancelled,  \* the GCancellable has been triggered
  cancel_at,  \* where the attempt stood when it was triggered
  net,        \* per driver, the far side of its connection: the units the
              \* proxy received, the bytes taken from the socket, the
              \* handshake and its error, and the streams the I/O went
              \* through
  bpc,        \* wocky_http_proxy_connect: the call it is blocked in
  b,          \* wocky_http_proxy_connect: its locals
  bret,       \* wocky_http_proxy_connect: what it returned
  apc,        \* suspendable driver: the operation that is pending
  data,       \* ConnectAsyncData
  task,       \* the GTask: times completed and the value it was completed with
  fin,        \* what wocky_http_proxy_connect_finish returned
  pin,        \* check_reply alone: its arguments
  pres,       \* check_reply alone: its result
  refs        \* per driver: the references held on the TLS connection, on the
              \* caller's io_stream (beyond the caller's own), on the
              \* GDataInputStream, and the gchar buffers allocated and not freed

vars ==
  <<sc, cancelled, cancel_at, net, bpc, b, bret, apc, data, task, fin, pin, pres, refs,
    libc>>

RAW == "io_stream"  \* the stream the caller supplied
TLS == "tlsconn"    \* the GTlsClientConnection wrapped around it
NULLP == "NULL"

Min(x, y) == IF x < y THEN x ELSE y

\* Reference counts: nothing is held when an attempt starts.
RefsInit == [tlsconn |-> 0, io_stream |-> 0, data_in |-> 0, buffer |-> 0]

\* g_object_ref (obj), and the creation of obj (one reference) or of a string
Ref(r, obj) == IF obj = NULLP THEN r ELSE [r EXCEPT ![obj] = @ + 1]

\* g_object_unref (obj), g_clear_object (&obj), g_free (obj): nothing for NULL.
\* A count below 0 is a release of what was already released.
Unref(r, obj) == IF obj = NULLP THEN r ELSE [r EXCEPT ![obj] = @ - 1]

\* The name a pointer of the drivers is counted under, NULLP for NULL.
DataInObj(data_in) == IF data_in.null THEN NULLP ELSE "data_in"
BufferObj(buffer) == IF buffer.null THEN NULLP ELSE "buffer"

NetInit ==
  [sent |-> << >>, rpos |-> 0, hs |-> "none", hs_error |-> NoError,
   wrote_on |-> {}, read_on |-> {}]

\* A result as the caller sees it: a stream or NULL, and the error.
NoResult       == [done |-> FALSE, stream |-> NULLP, error |-> NoError]
Result(st, e)  == [done |-> TRUE, stream |-> st, error |-> e]

\* A GDataInputStream *: NULL, or the wrapper with its buffered bytes.
NoDataIn   == [null |-> TRUE, buf |-> << >>]
DataIn(bf) == [null |-> FALSE, buf |-> bf]

BInit ==
  [io_stream |-> RAW, tlsconn |-> NULLP, data_in |-> NoDataIn, buffer |-> Null,
   has_cred |-> FALSE, written |-> 0]

DataInit ==
  [io_stream |-> NULLP, buffer |-> Null, length |-> 0, offset |-> 0,
   data_in |-> NoDataIn, has_cred |-> FALSE]

TaskInit == [returned |-> 0, result |-> NoResult]

PInit ==
  [version |-> << >>, sep1 |-> 0, code |-> << >>, sep2 |-> 0, phrase |-> << >>,
   tail |-> << >>, has_cred |-> FALSE]

PNone == [done |-> FALSE, ok |-> FALSE, error |-> NoError]

InitExchange ==
  /\ sc \in Scenarios
  \* every status code of Heads is an int: the two kinds of atoi agree
  /\ libc = "truncates"
  /\ cancelled = FALSE
  /\ cancel_at = "never"
  /\ net = [d \in {"blocking", "suspendable"} |-> NetInit]
  /\ bpc = "start"
  /\ b = BInit
  /\ bret = NoResult
  /\ apc = "start"
  /\ data = DataInit
  /\ task = TaskInit
  /\ fin = NoResult
  /\ pin = PInit
  /\ pres = PNone
  /\ refs = [d \in {"blocking", "suspendable"} |-> RefsInit]

(***************************************************************************)
(* The collaborators: cancellable, output stream, input stream.           *)
(***************************************************************************)
\* g_cancellable_is_cancelled (cancellable); NULL is never cancelled.
IsCancelled == sc.run \in {"blocking", "suspendable"} /\ cancelled

\* The request as create_request builds it for this exchange.
TheRequest == create_request("host", "port", sc.username, sc.password)

\* One g_output_stream_write of the part of the request from offset on:
\* the possible results, n < 0 for an error.
WriteResults(d, offset, length) ==
  IF IsCancelled THEN {[n |-> 0 - 1, error |-> Cancelled]}
  ELSE IF sc.wbreak # NoBreak /\ Len(net[d].sent) >= sc.wbreak
  THEN {[n |-> 0 - 1, error |-> WriteError]}
  ELSE LET room == IF sc.wbreak = NoBreak THEN length - offset
                   ELSE Min(length - offset, sc.wbreak - Len(net[d].sent))
       IN  {[n |-> k, error |-> NoError] : k \in 0..room}

\* The far side after a write of n units from offset through stream st.
NetAfterWrite(d, request, offset, n, st) ==
  [net EXCEPT ![d].sent = @ \o SubSeq(request, offset + 1, offset + n),
              ![d].wrote_on = @ \cup {st}]

\* (variant: the read is issued without the cancellable)
FillResults_no_cancellable(d) ==
  LET left == Len(Script(sc)) - net[d].rpos
  IN  IF left = 0
      THEN CASE sc.end = "eof"   -> {[n |-> 0, error |-> NoError]}
             [] sc.end = "error" -> {[n |-> 0 - 1, error |-> ReadError]}
             [] sc.end = "stall" -> {}
      ELSE {[n |-> k, error |-> NoError] : k \in 1..Min(MaxFill, left)}

\* One read of the underlying stream into the wrapper's buffer: n < 0 for
\* an error, 0 at end of stream.  No result while the proxy stays silent.
FillResults(d) ==
  LET left == Len(Script(sc)) - net[d].rpos
  IN  IF IsCancelled THEN {[n |-> 0 - 1, error |-> Cancelled]}
      ELSE IF left = 0
      THEN CASE sc.end = "eof"   -> {[n |-> 0, error |-> NoError]}
             [] sc.end = "error" -> {[n |-> 0 - 1, error |-> ReadError]}
             [] sc.end = "stall" -> {}
      ELSE {[n |-> k, error |-> NoError] : k \in 1..Min(MaxFill, left)}

\* The far side, and the wrapper's buffer, after a read of n bytes.
NetAfterFill(d, n, st) ==
  [net EXCEPT ![d].rpos = @ + n, ![d].read_on = @ \cup {st}]

Filled(d, buf, n) == buf \o SubSeq(Script(sc), net[d].rpos + 1, net[d].rpos + n)

\* The handshake of the TLS layer: the error it ends with.
HandshakeResult ==
  IF IsCancelled THEN Cancelled
  ELSE IF sc.tls = "handshake_fails" THEN HandshakeError
  ELSE NoError


(***************************************************************************)
(* Decisions both drivers take, as the source writes them.                 *)
(***************************************************************************)
\* "HTTP proxy server closed connection unexpectedly."
ClosedError == GError("G_IO_ERROR", "G_IO_ERROR_PROXY_FAILED", MSG_CLOSED)

\* (variant: the error is passed on as it is, NULL included)
complete_error_keep(error) == error

\* (variant: every error is replaced by the "closed" failure)
complete_error_replace(error) == ClosedError

\* if (error == NULL) g_set_error_literal (&error, ..., "... closed ...");
complete_error(error) == IF error = NoError THEN ClosedError ELSE error

\* (variant: the read is issued after the first write, complete or not)
WriteComplete_early(offset, length) == TRUE

\* (variant: the end of the write phase is never seen)
WriteComplete_never(offset, length) == FALSE

\* if (data->offset == data->length): the whole request has been written.
WriteComplete(offset, length) == offset = length

\* stop_chars handed to g_data_input_stream_read_until(_async)
StopChars == CharsOf(HTTP_END_MARKER)

(***************************************************************************)
(* The blocking driver: wocky_http_proxy_connect.  One action per call it  *)
(* blocks in; each action runs the function up to the next such call or    *)
(* to its return.                                                          *)
(***************************************************************************)
BlockingUnchanged ==
  UNCHANGED <<sc, cancelled, cancel_at, apc, data, task, fin, pin, pres, libc>>

\* error: g_clear_object (&tlsconn); g_clear_object (&data_in);
\*        g_free (buffer); return NULL;
\* with b1 the locals and r1 the reference counts at the goto
BlockingFail(err, net1, b1, r1) ==
  /\ b' = [b1 EXCEPT !.tlsconn = NULLP, !.data_in = NoDataIn, !.buffer = Null]
  /\ refs' = [refs EXCEPT !["blocking"] =
                Unref(Unref(Unref(r1, b1.tlsconn), DataInObj(b1.data_in)),
                      BufferObj(b1.buffer))]
  /\ bret' = Result(NULLP, err)
  /\ bpc' = "returned"
  /\ net' = net1

\* (variant: the assignment io_stream = tlsconn is missing)
BlockingTlsStream_raw(tlsconn) == RAW

\* io_stream = tlsconn;
BlockingTlsStream(tlsconn) == tlsconn

\* Lines 210-218: the wrapper, the request, and the first write is issued.
BlockingConnected(io_stream, tlsconn, net1, r1) ==
  LET rq == TheRequest
  IN  /\ b' = [io_stream |-> io_stream, tlsconn |-> tlsconn,
               data_in |-> DataIn(<< >>), buffer |-> Ptr(rq.request),
               has_cred |-> rq.has_cred, written |-> 0]
      /\ refs' = [refs EXCEPT !["blocking"] = Ref(Ref(r1, "data_in"), "buffer")]
      /\ bpc' = "write"
      /\ bret' = bret
      /\ net' = net1

\* Entry, up to the handshake (TLS-to-proxy) or the first write (plain).
connect_enter ==
  /\ sc.run \in {"both", "blocking"}
  /\ bpc = "start"
  /\ IF sc.https
     THEN IF sc.tls = "new_fails"
          THEN BlockingFail(TlsNewError, net, b, refs["blocking"])
          ELSE /\ b' = [b EXCEPT !.tlsconn = TLS]
               /\ refs' = [refs EXCEPT !["blocking"] = Ref(@, TLS)]
               /\ bpc' = "handshake"
               /\ UNCHANGED <<bret, net>>
     ELSE BlockingConnected(RAW, NULLP, net, refs["blocking"])
  /\ BlockingUnchanged

\* g_tls_connection_handshake returns.
connect_handshake ==
  /\ bpc = "handshake"
  /\ LET e == HandshakeResult
     IN  IF e # NoError
         THEN BlockingFail(e, [net EXCEPT !["blocking"].hs = "failed",
                                          !["blocking"].hs_error = e],
                           b, refs["blocking"])
         ELSE BlockingConnected(BlockingTlsStream(b.tlsconn), b.tlsconn,
                                [net EXCEPT !["blocking"].hs = "done"],
                                refs["blocking"])
  /\ BlockingUnchanged

\* One write of g_output_stream_write_all returns; after the last one,
\* g_free (buffer).
connect_write ==
  /\ bpc = "write"
  /\ \E r \in WriteResults("blocking", b.written, Len(b.buffer.s)) :
       IF r.n < 0
       THEN BlockingFail(r.error, net, b, refs["blocking"])
       ELSE /\ net' = NetAfterWrite("blocking", b.buffer.s, b.written, r.n, b.io_stream)
            /\ bret' = bret
            /\ IF WriteComplete(b.written + r.n, Len(b.buffer.s))
               THEN /\ b' = [b EXCEPT !.written = @ + r.n, !.buffer = Null]
                    /\ refs' = [refs EXCEPT !["blocking"] = Unref(@, "buffer")]
                    /\ bpc' = "read"
               ELSE /\ b' = [b EXCEPT !.written = @ + r.n]
                    /\ refs' = refs
                    /\ bpc' = "write"
  /\ BlockingUnchanged

\* Lines 223-249, with `line` what g_data_input_stream_read_until returned:
\* buffer = line; g_clear_object (&data_in); and what follows.
BlockingAfterRead(line, error, net1) ==
  LET b1 == [b EXCEPT !.buffer = line, !.data_in = NoDataIn]
      r1 == Unref(Ref(refs["blocking"], BufferObj(line)), DataInObj(b.data_in))
  IN  IF line.null
      THEN BlockingFail(complete_error(error), net1, b1, r1)
      ELSE \E cr \in {check_reply(line.s, b.has_cred)} :
             IF ~cr.ok
             THEN BlockingFail(cr.error, net1, b1, r1)
             ELSE \* g_free (buffer); g_object_ref (io_stream);
                  \* g_clear_object (&tlsconn); return io_stream;
                  /\ b' = [b1 EXCEPT !.tlsconn = NULLP, !.buffer = Null]
                  /\ refs' = [refs EXCEPT !["blocking"] =
                                Unref(Ref(Unref(r1, "buffer"), b.io_stream), b.tlsconn)]
                  /\ bret' = Result(b.io_stream, NoError)
                  /\ bpc' = "returned"
                  /\ net' = net1

\* One read of g_data_input_stream_read_until returns.
connect_read ==
  /\ bpc = "read"
  /\ \E r \in FillResults("blocking") :
       LET net1 == NetAfterFill("blocking", IF r.n > 0 THEN r.n ELSE 0, b.io_stream)
           buf1 == Filled("blocking", b.data_in.buf, IF r.n > 0 THEN r.n ELSE 0)
           pos  == scan_for_chars(buf1, 1, StopChars)
       IN  IF r.n < 0 THEN BlockingAfterRead(Null, r.error, net1)
           ELSE IF r.n = 0 \/ pos # 0
           THEN \E rd \in {IF r.n = 0 THEN ReadUntilEof(buf1)
                            ELSE ReadUntilFound(buf1, pos)} :
                  BlockingAfterRead(rd.line, NoError, net1)
           ELSE /\ b' = [b EXCEPT !.data_in = DataIn(buf1)]
                /\ net' = net1
                /\ UNCHANGED <<bpc, bret, refs>>
  /\ BlockingUnchanged


(***************************************************************************)
(* The suspendable driver: wocky_http_proxy_connect_async, its callbacks,  *)
(* and wocky_http_proxy_connect_finish.                                    *)
(***************************************************************************)
AsyncUnchanged ==
  UNCHANGED <<sc, cancelled, cancel_at, bpc, b, bret, pin, pres, libc>>

\* (variant: the callback goes on after completing the task, as if the
\* return after complete_async_from_error were missing)
complete_async_no_return(error, data1, net1, r1) ==
  /\ task' = [returned |-> task.returned + 1,
              result |-> Result(NULLP, complete_error(error))]
  /\ apc' = apc
  /\ data' = data1
  /\ net' = net1
  /\ refs' = [refs EXCEPT !["suspendable"] = r1]
  /\ fin' = fin

\* complete_async_from_error (task, error), with data1, net1 and r1 the
\* task data, the far side and the reference counts at the call
complete_async_from_error(error, data1, net1, r1) ==
  /\ task' = [returned |-> task.returned + 1,
              result |-> Result(NULLP, complete_error(error))]
  /\ apc' = "completed"
  /\ data' = data1
  /\ net' = net1
  /\ refs' = [refs EXCEPT !["suspendable"] = r1]
  /\ fin' = fin

\* (variant: every write starts at the beginning of the buffer)
do_write_restart(data1) ==
  [offset |-> 0, count |-> data1.length - data1.offset]

\* do_write: the write it issues, data->buffer + data->offset for
\* data->length - data->offset
do_write(data1) ==
  [offset |-> data1.offset, count |-> data1.length - data1.offset]

\* stream_connected (task, io_stream), which ends in do_write:
\* data->io_stream = g_object_ref (io_stream); g_data_input_stream_new (in)
stream_connected(io_stream, data1, net1, r1) ==
  /\ data' = [data1 EXCEPT !.io_stream = io_stream, !.data_in = DataIn(<< >>)]
  /\ refs' = [refs EXCEPT !["suspendable"] = Ref(Ref(r1, io_stream), "data_in")]
  /\ apc' = "write"
  /\ net' = net1
  /\ UNCHANGED <<task, fin>>

\* (variant: the callback goes on with the stream the caller supplied)
HandshakeStream_raw == RAW

\* G_IO_STREAM (conn) in handshake_completed: the source object of the
\* handshake, the connection made by g_tls_client_connection_new.
HandshakeStream == TLS

\* wocky_http_proxy_connect_async
connect_async ==
  /\ apc = "start"
  /\ \/ sc.run = "suspendable"
     \/ sc.run = "both" /\ bret.done
  /\ LET rq == TheRequest
         data1 == [data EXCEPT !.buffer = Ptr(rq.request),
                               !.has_cred = rq.has_cred,
                               !.length = Len(rq.request),
                               !.offset = 0]
         \* data->buffer = create_request (...)
         r1 == Ref(refs["suspendable"], "buffer")
     IN  IF sc.https
         THEN IF sc.tls = "new_fails"
              THEN complete_async_from_error(TlsNewError, data1, net, r1)
              ELSE \* tlsconn = g_tls_client_connection_new (...): the function
                   \* returns with the handshake pending and does not release
                   \* the reference it got
                   /\ data' = data1
                   /\ refs' = [refs EXCEPT !["suspendable"] = Ref(r1, TLS)]
                   /\ apc' = "handshake"
                   /\ UNCHANGED <<task, fin, net>>
         ELSE stream_connected(RAW, data1, net, r1)
  /\ AsyncUnchanged

\* handshake_completed
handshake_completed ==
  /\ apc = "handshake"
  /\ LET e == HandshakeResult
     IN  IF e # NoError
         THEN complete_async_from_error(e, data,
                                        [net EXCEPT !["suspendable"].hs = "failed",
                                                    !["suspendable"].hs_error = e],
                                        refs["suspendable"])
         ELSE stream_connected(HandshakeStream, data,
                               [net EXCEPT !["suspendable"].hs = "done"],
                               refs["suspendable"])
  /\ AsyncUnchanged

\* (variant: the cursor is set to what the last write transferred)
offset_add_set(offset, written) == written

\* data->offset += written;
offset_add(offset, written) == offset + written

\* request_write_cb, for the write that do_write issued
request_write_cb ==
  /\ apc = "write"
  /\ \E r \in WriteResults("suspendable", do_write(data).offset,
                             do_write(data).offset + do_write(data).count) :
       IF r.n < 0
       THEN complete_async_from_error(r.error, data, net, refs["suspendable"])
       ELSE LET net1 == NetAfterWrite("suspendable", data.buffer.s,
                                      do_write(data).offset, r.n, data.io_stream)
            IN  /\ net' = net1
                /\ UNCHANGED <<task, fin>>
                /\ IF WriteComplete(offset_add(data.offset, r.n), data.length)
                   THEN \* g_clear_pointer (&data->buffer, g_free);
                        /\ data' = [data EXCEPT !.offset = offset_add(@, r.n),
                                                !.buffer = Null]
                        /\ refs' = [refs EXCEPT !["suspendable"] =
                                      Unref(@, BufferObj(data.buffer))]
                        /\ apc' = "read"
                   ELSE /\ data' = [data EXCEPT !.offset = offset_add(@, r.n)]
                        /\ refs' = refs
                        /\ apc' = "write"
  /\ AsyncUnchanged

\* Inside g_data_input_stream_read_until_async: a read that brought bytes
\* but no stop character; the stream reads on and no callback of the driver
\* runs.
data_in_fill ==
  /\ apc = "read"
  /\ \E r \in FillResults("suspendable") :
       /\ r.n > 0
       /\ LET buf1 == Filled("suspendable", data.data_in.buf, r.n)
          IN  /\ scan_for_chars(buf1, 1, StopChars) = 0
              /\ data' = [data EXCEPT !.data_in = DataIn(buf1)]
              /\ net' = NetAfterFill("suspendable", r.n, data.io_stream)
  /\ UNCHANGED <<apc, task, fin, refs>>
  /\ AsyncUnchanged

\* Lines 444-461 of reply_read_cb, with `rd` what read_until_finish gave.
ReplyRead(rd, error, net1) ==
  LET data1 == [data EXCEPT !.buffer = rd.line, !.data_in = DataIn(rd.rest)]
      r1    == Ref(refs["suspendable"], BufferObj(rd.line))
  IN  IF rd.line.null
      THEN complete_async_from_error(error, data1, net1, r1)
      ELSE \E cr \in {check_reply(rd.line.s, data.has_cred)} :
             IF ~cr.ok
             THEN complete_async_from_error(cr.error, data1, net1, r1)
             ELSE \* g_task_return_pointer (task, data->io_stream, g_object_unref):
                  \* the reference of data->io_stream goes to the task
                  /\ task' = [returned |-> task.returned + 1,
                              result |-> Result(data.io_stream, NoError)]
                  /\ data' = [data1 EXCEPT !.io_stream = NULLP]
                  /\ refs' = [refs EXCEPT !["suspendable"] = r1]
                  /\ apc' = "completed"
                  /\ net' = net1
                  /\ fin' = fin

\* reply_read_cb: the read that ends g_data_input_stream_read_until_async
\* (an error, the end of the stream, or a stop character) and the callback.
reply_read_cb ==
  /\ apc = "read"
  /\ \E r \in FillResults("suspendable") :
       LET n    == IF r.n > 0 THEN r.n ELSE 0
           net1 == NetAfterFill("suspendable", n, data.io_stream)
           buf1 == Filled("suspendable", data.data_in.buf, n)
           pos  == scan_for_chars(buf1, 1, StopChars)
       IN  IF r.n < 0
           THEN ReplyRead([line |-> Null, rest |-> buf1], r.error, net1)
           ELSE /\ (r.n = 0 \/ pos # 0)
                /\ \E rd \in {IF r.n = 0 THEN ReadUntilEof(buf1)
                               ELSE ReadUntilFoundAsync(buf1, pos)} :
                     ReplyRead(rd, NoError, net1)
  /\ AsyncUnchanged

\* free_connect_data, run when the task is finalized
free_connect_data(d) ==
  [d EXCEPT !.io_stream = NULLP, !.buffer = Null, !.data_in = NoDataIn]

\* ... and the references it releases: g_object_unref (data->io_stream);
\* g_free (data->buffer); g_object_unref (data->data_in);
free_connect_data_unref(d, r1) ==
  Unref(Unref(Unref(r1, d.io_stream), BufferObj(d.buffer)), DataInObj(d.data_in))

\* wocky_http_proxy_connect_finish: g_task_propagate_pointer (task, error).
\* A GTask checks its cancellable first (check-cancellable is on by default):
\* once it is triggered the result is G_IO_ERROR_CANCELLED, whatever the
\* task was completed with; a stream it was completed with then stays with
\* the task, which releases it (g_object_unref) when it is finalized.
\* Otherwise the stream and its reference go to the caller.
connect_finish ==
  /\ apc = "completed"
  /\ fin' = IF IsCancelled THEN Result(NULLP, Cancelled) ELSE task.result
  /\ apc' = "finished"
  /\ data' = free_connect_data(data)
  /\ refs' = [refs EXCEPT !["suspendable"] =
                free_connect_data_unref(data, IF IsCancelled
                                              THEN Unref(@, task.result.stream)
                                              ELSE @)]
  /\ UNCHANGED <<task, net>>
  /\ AsyncUnchanged

(***************************************************************************)
(* The caller triggers the cancellable, at any moment before the attempt   *)
(* is over.                                                                *)
(***************************************************************************)
Cancel ==
  /\ sc.run \in {"blocking", "suspendable"}
  /\ ~cancelled
  /\ IF sc.run = "blocking" THEN bpc # "returned" ELSE apc # "finished"
  /\ cancelled' = TRUE
  /\ cancel_at' = IF sc.run = "blocking" THEN bpc ELSE apc
  /\ UNCHANGED <<sc, net, bpc, b, bret, apc, data, task, fin, pin, pres, refs, libc>>


(***************************************************************************)
(* check_reply on its own: Init draws a buffer, built from the parts of a  *)
(* status line, and has_cred; the one action applies check_reply.          *)
(***************************************************************************)
\* The most spaces between the parts of the status line.
MaxSpaces == 2

Versions ==
  { Str_HTTP10, Str_HTTP11,
    HTTP_1_ \o <<"2">>,
    <<"H", "T", "T", "P", "/", "2", ".", "0">>,
    <<"h", "t", "t", "p", "/", "1", ".", "1">>,
    <<"G", "A", "R", "B", "A", "G", "E">>,
    HTTP_1_,
    <<"H", "T", "T", "P">>,
    << >> }

CodeStrs ==
  { <<"2", "0", "0">>, <<"2", "9", "9">>, <<"1", "9", "9">>, <<"3", "0", "0">>,
    <<"4", "0", "7">>, <<"4", "0", "4">>, <<"2", "5", "0">>, <<"0">>,
    <<"2">>, <<"2", "0", "0", "0">>, <<"0", "2", "0", "0">>,
    << >>, <<"a", "b", "c">>, <<"+", "2", "0", "0">>, <<"-", "5">>,
    <<"4", "2", "9", "4", "9", "6", "7", "4", "9", "6">>,
    <<"2", "1", "4", "7", "4", "8", "3", "8", "4", "8">>,
    <<"-", "4", "2", "9", "4", "9", "6", "7", "0", "9", "6">> }

Phrases == { << >>, <<"O", "K">>, <<"N", "o", SP, "w", "a", "y">> }

ParseTails == { << >>, <<CR, LF>>, HTTP_END_MARKER }

Spaces(n) == [i \in 1..n |-> SP]

ParseInputs ==
  [version : Versions, sep1 : 0..MaxSpaces, code : CodeStrs, sep2 : 0..MaxSpaces,
   phrase : Phrases, tail : ParseTails, has_cred : BOOLEAN]

\* The buffer handed to check_reply.
BufferOf(in) ==
  in.version \o Spaces(in.sep1) \o in.code \o Spaces(in.sep2) \o in.phrase \o in.tail

\* No exchange is played while check_reply is applied on its own.
NoScenario ==
  [https |-> FALSE, tls |-> "ok", username |-> NullStr, password |-> NullStr,
   wbreak |-> NoBreak, head |-> << >>, tail |-> << >>, payload |-> << >>,
   end |-> "eof",
   run |-> "none"]

InitParse ==
  /\ pin \in ParseInputs
  /\ libc \in AtoiOverflows
  /\ pres = PNone
  /\ sc = NoScenario
  /\ cancelled = FALSE
  /\ cancel_at = "never"
  /\ net = [d \in {"blocking", "suspendable"} |-> NetInit]
  /\ bpc = "off"
  /\ b = BInit
  /\ bret = NoResult
  /\ apc = "off"
  /\ data = DataInit
  /\ task = TaskInit
  /\ fin = NoResult
  /\ refs = [d \in {"blocking", "suspendable"} |-> RefsInit]

\* check_reply (buffer, has_cred, &error)
CheckReply ==
  /\ sc.run = "none"
  /\ ~pres.done
  /\ LET cr == check_reply(BufferOf(pin), pin.has_cred)
     IN  pres' = [done |-> TRUE, ok |-> cr.ok, error |-> cr.error]
  /\ UNCHANGED <<sc, cancelled, cancel_at, net, bpc, b, bret, apc, data, task, fin, pin,
                 refs, libc>>

(***************************************************************************)
(* The specification: an exchange played against the drivers, or           *)
(* check_reply applied on its own.                                         *)
(***************************************************************************)
Init == InitExchange \/ InitParse

Next ==
  \/ connect_enter
  \/ connect_handshake
  \/ connect_write
  \/ connect_read
  \/ connect_async
  \/ handshake_completed
  \/ request_write_cb
  \/ data_in_fill
  \/ reply_read_cb
  \/ connect_finish
  \/ Cancel
  \/ CheckReply

Spec == Init /\ [][Next]_vars


(***************************************************************************)
(* What the caller of a driver got: the return value and *error of         *)
(* wocky_http_proxy_connect, or of wocky_http_proxy_connect_finish.        *)
(***************************************************************************)
Drivers == {"blocking", "suspendable"}

Outcome(d) == IF d = "blocking" THEN bret ELSE fin

(***************************************************************************)
(* C1.  Played against the same exchange (same TLS behaviour, same         *)
(* transport, same bytes from the proxy, whatever the chunking of the      *)
(* writes and reads), the blocking driver and the suspendable driver end   *)
(* in the same outcome: the same stream, or the same error class and       *)
(* message.                                                                *)
(***************************************************************************)
C1_DriversAgree ==
  (sc.run = "both" /\ bret.done /\ fin.done) => bret = fin

(***************************************************************************)
(* C2.  In both drivers: when the proxy closes the stream before the       *)
(* terminator CR LF CR LF has been received, and no error is reported by   *)
(* the transport, the attempt fails with "HTTP proxy server closed         *)
(* connection unexpectedly", however many bytes came before the close.     *)
(***************************************************************************)
C2_CloseBeforeTerminatorFails ==
  \A d \in Drivers :
    ( /\ Outcome(d).done
      /\ ~cancelled
      /\ net[d].sent = TheRequest.request
      /\ sc.end = "eof"
      /\ sc.tail # HTTP_END_MARKER )
    => Outcome(d) = Result(NULLP, ClosedError)

(***************************************************************************)
(* C3.  In both drivers: when the whole request has been written and the   *)
(* proxy closes the stream without sending a byte, and no error is         *)
(* reported by the transport, the outcome is the failure "HTTP proxy       *)
(* server closed connection unexpectedly" of class                         *)
(* G_IO_ERROR_PROXY_FAILED, with no stream.                                *)
(***************************************************************************)
C3_CloseAfterNothingFails ==
  \A d \in Drivers :
    ( /\ Outcome(d).done
      /\ ~cancelled
      /\ net[d].sent = TheRequest.request
      /\ Script(sc) = << >>
      /\ sc.end = "eof" )
    => Outcome(d) = Result(NULLP, ClosedError)

C3_Witness ==
  /\ sc.run = "both"
  /\ bret.done /\ fin.done
  /\ net["blocking"].sent = TheRequest.request
  /\ net["suspendable"].sent = TheRequest.request
  /\ Script(sc) = << >> /\ sc.end = "eof"
  /\ bret.error = ClosedError /\ fin.error = ClosedError


(***************************************************************************)
(* The words of the claims about check_reply, read off the input itself.   *)
(***************************************************************************)
RECURSIVE DropLeading(_, _)
DropLeading(s, set) ==
  IF s # << >> /\ Head(s) \in set THEN DropLeading(Tail(s), set) ELSE s

RECURSIVE TakeLeading(_, _)
TakeLeading(s, set) ==
  IF s # << >> /\ Head(s) \in set
  THEN <<Head(s)>> \o TakeLeading(Tail(s), set) ELSE << >>

RECURSIVE TakeUntil(_, _)
TakeUntil(s, c) ==
  IF s = << >> \/ Head(s) = c THEN << >> ELSE <<Head(s)>> \o TakeUntil(Tail(s), c)

\* The first 8 bytes are "HTTP/1.0" or "HTTP/1.1".
ValidPrefix(buffer) ==
  Len(buffer) >= 8 /\ SubSeq(buffer, 1, 8) \in {Str_HTTP10, Str_HTTP11}

\* What follows the version and its spaces.
AfterVersion(buffer) == DropLeading(From(buffer, 9), {SP})

\* The status code parsed there, its digits, and the reason phrase: the bytes
\* after the digits and the spaces following them, up to the first CR.
StatusOf(buffer)    == atoi(AfterVersion(buffer), 1)
StatusDigits(buffer) == TakeLeading(AfterVersion(buffer), Digits)
PhraseOf(buffer) ==
  TakeUntil(DropLeading(DropLeading(AfterVersion(buffer), Digits), {SP}), CR)

ProxyFailed(message) == GError("G_IO_ERROR", "G_IO_ERROR_PROXY_FAILED", message)
AuthFailed == GError("G_IO_ERROR", "G_IO_ERROR_PROXY_AUTH_FAILED", MSG_AUTH_FAILED)
AuthRequired == GError("G_IO_ERROR", "G_IO_ERROR_PROXY_NEED_AUTH", MSG_AUTH_REQUIRED)

(***************************************************************************)
(* C4.  For a reply with a valid "HTTP/1.0" or "HTTP/1.1" prefix,          *)
(* check_reply succeeds if and only if the status code parsed after the    *)
(* version lies in 200..299: the digits 200 and 299 succeed, 199 and 300   *)
(* fail, and a status that does not start with a digit or a sign (parsed   *)
(* as 0) fails.                                                            *)
(***************************************************************************)
C4_StatusRange ==
  LET buffer == BufferOf(pin)
      digits == StatusDigits(buffer)
      rest   == AfterVersion(buffer)
  IN  (pres.done /\ ValidPrefix(buffer)) =>
        /\ pres.ok <=> (StatusOf(buffer) >= 200 /\ StatusOf(buffer) <= 299)
        /\ digits \in {<<"2", "0", "0">>, <<"2", "9", "9">>} => pres.ok
        /\ digits \in {<<"1", "9", "9">>, <<"3", "0", "0">>} => ~pres.ok
        /\ (rest = << >> \/ Head(rest) \notin Digits \cup {"+", "-"}) => ~pres.ok

C4_Witness ==
  /\ pres.done /\ ValidPrefix(BufferOf(pin))
  /\ StatusDigits(BufferOf(pin)) = <<"2", "9", "9">>
  /\ pres.ok


(***************************************************************************)
(* The attempt of driver d got a reply line to parse: it is over, was not  *)
(* cancelled, wrote the whole request, and the read did not end in a       *)
(* transport error.                                                        *)
(***************************************************************************)
ParsedReply(d) ==
  /\ Outcome(d).done
  /\ ~cancelled
  /\ net[d].sent = TheRequest.request
  /\ sc.head # << >>
  /\ ~(sc.tail = << >> /\ sc.end = "error")

\* The request the proxy received carries a Proxy-Authorization header.
SentAuthorization(d) ==
  \E i \in 1..Len(net[d].sent) : net[d].sent[i][1] = "Proxy-Authorization"

(***************************************************************************)
(* C5.  For a reply with a valid version prefix and status code 407,       *)
(* check_reply fails with G_IO_ERROR_PROXY_AUTH_FAILED when has_cred is    *)
(* true and with G_IO_ERROR_PROXY_NEED_AUTH when it is false, whatever the *)
(* reason phrase (an empty one included).  In both drivers the has_cred    *)
(* used is the one of the request built for the same attempt: a 407 reply  *)
(* gives AUTH_FAILED exactly when the request the proxy received carried   *)
(* the Proxy-Authorization header.                                         *)
(***************************************************************************)
C5_AuthClassification ==
  /\ (pres.done /\ ValidPrefix(BufferOf(pin)) /\ StatusOf(BufferOf(pin)) = 407) =>
       /\ ~pres.ok
       /\ pres.error = IF pin.has_cred THEN AuthFailed ELSE AuthRequired
  /\ \A d \in Drivers :
       (ParsedReply(d) /\ ValidPrefix(sc.head) /\ StatusOf(sc.head) = 407) =>
         Outcome(d) = Result(NULLP, IF SentAuthorization(d) THEN AuthFailed
                                    ELSE AuthRequired)

C5_Witness ==
  /\ sc.run = "both"
  /\ ParsedReply("blocking") /\ ParsedReply("suspendable")
  /\ StatusOf(sc.head) = 407 /\ PhraseOf(sc.head) = << >>
  /\ SentAuthorization("blocking") /\ SentAuthorization("suspendable")
  /\ bret.error = AuthFailed /\ fin.error = AuthFailed

(***************************************************************************)
(* C6.  For a reply with a valid version prefix and a status code outside  *)
(* 200..299 other than 407, check_reply fails with                         *)
(* "Connection failed due to broken HTTP reply" when the reason phrase     *)
(* (the bytes after the code digits and the spaces following them, up to   *)
(* the first CR or the end of the buffer) is empty, and with               *)
(* "HTTP proxy connection failed: <code> <phrase>", carrying exactly that  *)
(* code and that phrase, when it is not.                                   *)
(***************************************************************************)
C6_FailureMessage ==
  LET buffer == BufferOf(pin)
      code   == StatusOf(buffer)
  IN  (pres.done /\ ValidPrefix(buffer) /\ (code < 200 \/ code > 299) /\ code # 407) =>
        /\ ~pres.ok
        /\ pres.error = IF PhraseOf(buffer) = << >>
                        THEN ProxyFailed(MSG_BROKEN)
                        ELSE ProxyFailed(MsgFailed(code, PhraseOf(buffer)))

C6_Witness ==
  /\ pres.done /\ ValidPrefix(BufferOf(pin))
  /\ StatusOf(BufferOf(pin)) = 404
  /\ pin.sep2 = 2
  /\ PhraseOf(BufferOf(pin)) = <<"N", "o", SP, "w", "a", "y">>
  /\ pres.error = ProxyFailed(MsgFailed(404, <<"N", "o", SP, "w", "a", "y">>))

(***************************************************************************)
(* C7.  A reply whose first 8 bytes are not "HTTP/1.0" or "HTTP/1.1" (a    *)
(* wrong literal, another minor version, fewer than 8 bytes) is the        *)
(* failure "Bad HTTP proxy reply", with no status code or reason phrase    *)
(* in it, and never a success; so it is in both drivers for a reply line   *)
(* such as "GARBAGE".                                                      *)
(***************************************************************************)
C7_BadPrefix ==
  /\ (pres.done /\ ~ValidPrefix(BufferOf(pin))) =>
       (~pres.ok /\ pres.error = ProxyFailed(MSG_BAD_REPLY))
  /\ \A d \in Drivers :
       (ParsedReply(d) /\ ~ValidPrefix(sc.head)) =>
         Outcome(d) = Result(NULLP, ProxyFailed(MSG_BAD_REPLY))

C7_Witness ==
  /\ pres.done
  /\ pin.version = HTTP_1_ \o <<"2">>
  /\ StatusDigits(BufferOf(pin)) = <<"2", "0", "0">>
  /\ pres.error = ProxyFailed(MSG_BAD_REPLY)


(***************************************************************************)
(* C8.  When the cancellable is triggered while the attempt is suspended   *)
(* in the handshake, in a pending write or in a pending read, the attempt  *)
(* ends in the failure G_IO_ERROR_CANCELLED, which is none of the protocol *)
(* failures, and no stream is handed to the caller: neither the task nor   *)
(* the driver's result holds one.                                          *)
(***************************************************************************)
C8_CancelledWhilePending ==
  (cancel_at \in {"handshake", "write", "read"}) =>
    /\ \A d \in Drivers :
         Outcome(d).done => Outcome(d) = Result(NULLP, Cancelled)
    /\ task.returned > 0 => task.result = Result(NULLP, Cancelled)
    /\ Cancelled.code \notin {"G_IO_ERROR_PROXY_FAILED", "G_IO_ERROR_PROXY_AUTH_FAILED",
                              "G_IO_ERROR_PROXY_NEED_AUTH"}

C8_Witness ==
  /\ sc.run = "suspendable"
  /\ cancel_at = "read"
  /\ net["suspendable"].rpos > 0
  /\ fin = Result(NULLP, Cancelled)

(***************************************************************************)
(* C9.  Every attempt has at most one terminal outcome, a stream or an     *)
(* error and never both.  The task of the suspendable driver is completed  *)
(* exactly once on the way to its terminal state and never again; once it  *)
(* is completed no callback runs and no I/O happens; and each driver moves *)
(* through start, handshake, writing, reading, terminal in that order      *)
(* only, never back.                                                       *)
(***************************************************************************)
Rank(pc) ==
  CASE pc \in {"start", "off"} -> 0
    [] pc = "handshake" -> 1
    [] pc = "write" -> 2
    [] pc = "read" -> 3
    [] pc \in {"completed", "returned"} -> 4
    [] pc = "finished" -> 5

StreamXorError(r) == r.done => ((r.stream # NULLP) <=> (r.error = NoError))

C9_Invariant ==
  /\ task.returned <= 1
  /\ (task.returned = 1) <=> (apc \in {"completed", "finished"})
  /\ (task.returned = 1) <=> task.result.done
  /\ bret.done <=> (bpc = "returned")
  /\ fin.done <=> (apc = "finished")
  /\ StreamXorError(bret) /\ StreamXorError(fin) /\ StreamXorError(task.result)

C9_Step ==
  /\ Rank(apc') >= Rank(apc)
  /\ Rank(bpc') >= Rank(bpc)
  /\ task.returned = 1 => (task' = task /\ net' = net)
  /\ bret.done => bret' = bret
  /\ fin.done => (fin' = fin /\ data' = data)

C9_SingleOutcome == [][C9_Invariant /\ C9_Invariant' /\ C9_Step]_vars

C9_Witness ==
  /\ sc.run = "both"
  /\ bret.done /\ bret.stream # NULLP
  /\ fin.done /\ fin.stream # NULLP
  /\ task.returned = 1

(***************************************************************************)
(* C10.  In the TLS-to-proxy variant, in both drivers: no write is issued, *)
(* no unit of the request reaches the proxy and no reply byte is read      *)
(* before the handshake has succeeded; every write and read goes through   *)
(* the TLS connection; and when g_tls_client_connection_new or the         *)
(* handshake fails, nothing of the request is ever sent and the attempt    *)
(* ends with exactly that error (the blocking driver returns it, the task  *)
(* is completed with it, and _finish hands it out when the cancellable has *)
(* not been triggered).                                                    *)
(***************************************************************************)
TlsFailure(d) ==
  IF sc.tls = "new_fails" THEN TlsNewError ELSE net[d].hs_error

C10_TlsFirst ==
  (sc.https /\ sc.run # "none") =>
    /\ \A d \in Drivers :
         /\ ( \/ net[d].sent # << >> \/ net[d].rpos > 0
              \/ net[d].wrote_on # {} \/ net[d].read_on # {} )
            => net[d].hs = "done"
         /\ (net[d].wrote_on \cup net[d].read_on) \subseteq {TLS}
         /\ (sc.tls = "new_fails" \/ net[d].hs = "failed")
            => (net[d].sent = << >> /\ net[d].rpos = 0)
    /\ bpc \in {"write", "read"} => net["blocking"].hs = "done"
    /\ apc \in {"write", "read"} => net["suspendable"].hs = "done"
    /\ (bret.done /\ (sc.tls = "new_fails" \/ net["blocking"].hs = "failed"))
       => (bret = Result(NULLP, TlsFailure("blocking")) /\ bret.error # NoError)
    /\ (task.returned = 1 /\ (sc.tls = "new_fails" \/ net["suspendable"].hs = "failed"))
       => /\ task.result = Result(NULLP, TlsFailure("suspendable"))
          /\ task.result.error # NoError
          /\ (fin.done /\ ~cancelled) => fin = task.result

C10_Witness ==
  /\ sc.https /\ sc.run = "both"
  /\ bret = Result(TLS, NoError)
  /\ fin = Result(TLS, NoError)
  /\ net["blocking"].wrote_on = {TLS} /\ net["blocking"].read_on = {TLS}
  /\ net["suspendable"].wrote_on = {TLS} /\ net["suspendable"].read_on = {TLS}

(***************************************************************************)
(* C11.  On success the stream handed to the caller is the stream the      *)
(* request was written on and the reply was read from, and no other stream *)
(* was used: in the plain variant the io_stream the caller supplied, with  *)
(* no handshake performed; in the TLS-to-proxy variant the TLS connection  *)
(* wrapped around it.  So it is for wocky_http_proxy_connect, for the      *)
(* value the task is completed with, and for _finish.                      *)
(***************************************************************************)
UsedStream(d, stream) ==
  /\ stream = IF sc.https THEN TLS ELSE RAW
  /\ net[d].wrote_on = {stream}
  /\ net[d].read_on = {stream}
  /\ (~sc.https => net[d].hs = "none")
  /\ (sc.https => net[d].hs = "done")

C11_ReturnedStream ==
  /\ \A d \in Drivers :
       (Outcome(d).done /\ Outcome(d).stream # NULLP) => UsedStream(d, Outcome(d).stream)
  /\ (task.returned > 0 /\ task.result.stream # NULLP)
       => UsedStream("suspendable", task.result.stream)

C11_Witness ==
  /\ sc.run = "both"
  /\ ~sc.https
  /\ bret = Result(RAW, NoError) /\ fin = Result(RAW, NoError)
  /\ net["blocking"].wrote_on = {RAW} /\ net["suspendable"].read_on = {RAW}
  /\ net["blocking"].hs = "none" /\ net["suspendable"].hs = "none"

(***************************************************************************)
(* C12.  create_request sets *has_cred, and puts the Proxy-Authorization   *)
(* header in the request, if and only if the username and the password are *)
(* both non-empty; when either is absent (NULL) or empty ("") has_cred is  *)
(* FALSE and the header is left out.  Read off the request and has_cred    *)
(* each driver holds once it has called create_request.                    *)
(***************************************************************************)
NonEmpty(str) == str # NullStr /\ str # ""

HasAuthorization(request) ==
  \E i \in 1..Len(request) : request[i][1] = "Proxy-Authorization"

C12_CredentialsNonEmpty ==
  LET both == NonEmpty(sc.username) /\ NonEmpty(sc.password)
  IN  /\ (bpc = "write" /\ b.written = 0) =>
           ((b.has_cred <=> both) /\ (HasAuthorization(b.buffer.s) <=> both))
      /\ (apc \in {"handshake", "write"} /\ data.offset = 0) =>
           ((data.has_cred <=> both) /\ (HasAuthorization(data.buffer.s) <=> both))

(***************************************************************************)
(* C13.  A transport error reported by a write or by the read ends the     *)
(* attempt with that same error, not replaced by another one.  After a     *)
(* failed write nothing more is written and no read is issued; after any   *)
(* failure no operation is pending, nothing more is written to or read     *)
(* from the connection, and the task is left as it is.                     *)
(* (Attempts whose cancellable has not been triggered.)                    *)
(***************************************************************************)
\* The transport fails a write of this exchange, or its read.
WriteFails == sc.run # "none" /\ sc.tls = "ok" /\ sc.wbreak # NoBreak
ReadFails ==
  /\ sc.run # "none" /\ sc.tls = "ok" /\ sc.wbreak = NoBreak
  /\ sc.end = "error"
  /\ scan_for_chars(Script(sc), 1, StopChars) = 0

TransportFailure(d, r) ==
  /\ WriteFails =>
       /\ r = Result(NULLP, WriteError)
       /\ Len(net[d].sent) = sc.wbreak
       /\ net[d].rpos = 0 /\ net[d].read_on = {}
  /\ ReadFails =>
       /\ r = Result(NULLP, ReadError)
       /\ net[d].sent = TheRequest.request
       /\ net[d].rpos = Len(Script(sc))

\* The attempt of driver d has failed.
HasFailed(d) ==
  IF d = "blocking" THEN bret.done /\ bret.stream = NULLP
  ELSE task.returned > 0 /\ task.result.stream = NULLP

C13_Invariant ==
  /\ ~cancelled =>
       /\ bret.done => TransportFailure("blocking", bret)
       /\ task.returned > 0 => TransportFailure("suspendable", task.result)
       /\ fin.done => TransportFailure("suspendable", fin)
  /\ HasFailed("blocking") => bpc = "returned"
  /\ HasFailed("suspendable") => apc \in {"completed", "finished"}

C13_Step ==
  /\ \A d \in Drivers : HasFailed(d) => net'[d] = net[d]
  /\ HasFailed("blocking") => (bpc' = bpc /\ bret' = bret)
  /\ HasFailed("suspendable") => (task' = task /\ apc' \in {"completed", "finished"})

C13_TransportError == [][C13_Invariant /\ C13_Invariant' /\ C13_Step]_vars

C13_Witness ==
  /\ sc.run = "both" /\ ReadFails
  /\ sc.head # << >>
  /\ bret = Result(NULLP, ReadError)
  /\ fin = Result(NULLP, ReadError)
  /\ net["suspendable"].rpos = Len(Script(sc))

(***************************************************************************)
(* C14.  In both drivers the read of the reply is issued only after the    *)
(* whole request has been written: while offset < length no read is        *)
(* pending and no byte of the reply has been taken from the connection,    *)
(* and once the read phase has begun nothing more is written.              *)
(***************************************************************************)
\* The read of the reply is pending in driver d, or has taken bytes.
Reading(d) ==
  \/ IF d = "blocking" THEN bpc = "read" ELSE apc = "read"
  \/ net[d].rpos > 0
  \/ net[d].read_on # {}

C14_Invariant ==
  /\ Reading("blocking") =>
       (b.written = Len(TheRequest.request) /\ net["blocking"].sent = TheRequest.request)
  /\ Reading("suspendable") =>
       (data.offset = data.length /\ net["suspendable"].sent = TheRequest.request)
  /\ (bpc = "write" => b.written < Len(b.buffer.s))
  /\ (apc = "write" => data.offset < data.length)

C14_Step ==
  \A d \in Drivers :
    Reading(d) => /\ net'[d].sent = net[d].sent
                  /\ net'[d].wrote_on = net[d].wrote_on
                  /\ (d = "blocking" => bpc' # "write")
                  /\ (d = "suspendable" => apc' # "write")

C14_WriteBeforeRead == [][C14_Invariant /\ C14_Invariant' /\ C14_Step]_vars

C14_Witness ==
  /\ sc.run = "both"
  /\ apc = "read" /\ bret.done
  /\ net["suspendable"].rpos > 0
  /\ data.offset = data.length /\ data.length = 6
  /\ net["blocking"].rpos > 0

(***************************************************************************)
(* C15.  Whatever the sequence of partial writes, what the proxy receives  *)
(* is the request create_request built, in order, nothing left out and     *)
(* nothing twice: at every moment the units received are the first offset  *)
(* units of the request (each write starts at buffer + offset), and when   *)
(* the write phase has ended they are the whole request.  The units of a   *)
(* request are all different, so a repeated or a skipped unit shows.       *)
(***************************************************************************)
IsPrefix(s, t) == Len(s) <= Len(t) /\ s = SubSeq(t, 1, Len(s))

C15_RequestReceivedOnce ==
  /\ \A d \in Drivers : IsPrefix(net[d].sent, TheRequest.request)
  /\ \A i, j \in 1..Len(TheRequest.request) :
       TheRequest.request[i] = TheRequest.request[j] => i = j
  /\ bpc = "write" => Len(net["blocking"].sent) = b.written
  /\ apc = "write" =>
       /\ Len(net["suspendable"].sent) = data.offset
       /\ data.buffer.s = TheRequest.request
       /\ data.length = Len(TheRequest.request)
  /\ \A d \in Drivers : Reading(d) => net[d].sent = TheRequest.request

\* Partial writes have brought 5 of the 6 units of a request to the proxy,
\* after the blocking driver has brought it there whole.
C15_Witness ==
  /\ sc.run = "both"
  /\ bret.done /\ net["blocking"].sent = TheRequest.request
  /\ apc = "write"
  /\ data.length = 6 /\ data.offset = 5
  /\ net["suspendable"].sent = SubSeq(TheRequest.request, 1, 5)

(***************************************************************************)
(* C16.  In every reachable state of the suspendable driver                *)
(* 0 <= offset <= length; offset never decreases; and the driver goes from *)
(* the write phase to the read phase exactly when offset == length: it     *)
(* stays in the write phase after a write that leaves offset < length (a   *)
(* write of 0 bytes included) and is in the read phase only with           *)
(* offset == length.                                                       *)
(***************************************************************************)
C16_Invariant ==
  /\ 0 <= data.offset /\ data.offset <= data.length
  /\ apc = "write" => data.offset < data.length
  /\ apc = "read" => data.offset = data.length

C16_Step ==
  /\ data'.offset >= data.offset
  /\ data'.length >= data.length
  /\ apc = "write" =>
       /\ (apc' = "read") <=> (data'.offset = data'.length)
       /\ (task' = task /\ data'.offset < data'.length) => apc' = "write"

C16_OffsetInvariant == [][C16_Invariant /\ C16_Invariant' /\ C16_Step]_vars

\* A write has returned 0 bytes and the driver is still in the write phase.
C16_Witness ==
  /\ apc = "write"
  /\ data.offset = 0
  /\ net["suspendable"].wrote_on # {}
  /\ net["suspendable"].sent = << >>

(***************************************************************************)
(* C17.  The read phase hands a reply to check_reply, and the attempt can  *)
(* succeed, only after the whole terminator CR LF CR LF has been received  *)
(* from the proxy: while only a single CR or LF has arrived (the end of    *)
(* the status line) the read phase does not end.                           *)
(***************************************************************************)
\* The bytes driver d has taken from the connection.
Received(d) == SubSeq(Script(sc), 1, net[d].rpos)

Contains(s, t) ==
  \E i \in 0..(Len(s) - Len(t)) : SubSeq(s, i + 1, i + Len(t)) = t

C17_TerminatorReceived ==
  \A d \in Drivers :
    /\ (Outcome(d).done /\ Outcome(d).stream # NULLP)
         => Contains(Received(d), HTTP_END_MARKER)
    /\ (Outcome(d).done /\ ~cancelled
          /\ Outcome(d).error.message \in {MSG_BAD_REPLY, MSG_BROKEN, MSG_AUTH_FAILED,
                                           MSG_AUTH_REQUIRED})
         => Contains(Received(d), HTTP_END_MARKER)

(***************************************************************************)
(* Fairness.  The main loop runs every callback whose operation has        *)
(* completed, and the blocking calls return: each step of a driver that    *)
(* can change the state is eventually taken.  A write that transfers 0     *)
(* bytes leaves the state as it is, so weak fairness of the write steps    *)
(* says that pending writes complete and transfer at least one byte.       *)
(***************************************************************************)
DriverStep ==
  \/ connect_enter \/ connect_handshake \/ connect_write \/ connect_read
  \/ connect_async \/ handshake_completed \/ request_write_cb
  \/ data_in_fill \/ reply_read_cb

Fairness == WF_vars(DriverStep)

\* The exchanges played for termination: every variant, transport and proxy
\* behaviour, with and without credentials.
InitLive ==
  /\ InitExchange
  /\ <<sc.username, sc.password>> \in {<<NullStr, NullStr>>, <<"u", "p">>}

NextLive == DriverStep \/ connect_finish \/ Cancel

LiveSpec == InitLive /\ [][NextLive]_vars /\ Fairness

(***************************************************************************)
(* C18.  Under this fairness, when the proxy eventually sends the          *)
(* terminator or closes the stream (or the transport reports an error),    *)
(* every attempt reaches a terminal outcome: the blocking driver returns   *)
(* and the task of the suspendable driver is completed; neither stays in   *)
(* the write phase or in the read phase for ever.                          *)
(***************************************************************************)
ProxyAnswers ==
  /\ sc.run # "none"
  /\ (sc.end # "stall" \/ Contains(Script(sc), HTTP_END_MARKER))

Terminal ==
  /\ sc.run \in {"both", "blocking"} => bret.done
  /\ sc.run \in {"both", "suspendable"} => task.returned > 0

C18_Terminates == ProxyAnswers ~> Terminal

C18_Witness ==
  /\ sc.run = "both" /\ ProxyAnswers /\ Terminal
  /\ sc.end = "stall"
  /\ net["blocking"].sent = TheRequest.request
  /\ net["suspendable"].sent = TheRequest.request
  /\ bret.stream # NULLP /\ task.result.stream # NULLP

(***************************************************************************)
(* C19.  When an attempt is over and its task data has been freed, in      *)
(* either driver and either variant, every reference it acquired on the    *)
(* TLS connection, the stream, the GDataInputStream and the request/reply  *)
(* buffer has been released exactly once (no count is left above 0, none   *)
(* went below 0), except the one reference on the returned stream that     *)
(* went to the caller on success: after a failed or cancelled attempt the  *)
(* TLS connection made for it has no reference left, and after a           *)
(* successful one the caller's is the only one.                            *)
(***************************************************************************)
\* The attempt of driver d is over and what it held has been freed.
Freed(d) == IF d = "blocking" THEN bpc = "returned" ELSE apc = "finished"

C19_ReferencesReleased ==
  \A d \in Drivers :
    /\ \A obj \in DOMAIN refs[d] : refs[d][obj] >= 0
    /\ Freed(d) =>
         /\ refs[d]["data_in"] = 0
         /\ refs[d]["buffer"] = 0
         /\ \A st \in {RAW, TLS} :
              refs[d][st] = IF Outcome(d).stream = st THEN 1 ELSE 0

(***************************************************************************)
(* C20.  When an attempt succeeds on a reply that holds the terminator     *)
(* CR LF CR LF, what the caller then reads from the returned stream is     *)
(* exactly what the proxy sent after the first terminator: no byte of the  *)
(* header block is left on the stream, and no byte behind the terminator   *)
(* was taken from it into the GDataInputStream and lost with it.           *)
(***************************************************************************)
\* What is left on the connection of driver d for the next reader.
LeftOnStream(d) == From(Script(sc), net[d].rpos + 1)

C20_CallerReadsTunnel ==
  \A d \in Drivers :
    ( /\ Outcome(d).done /\ Outcome(d).stream # NULLP
      /\ sc.tail = HTTP_END_MARKER )
    => LeftOnStream(d) = sc.payload


(***************************************************************************)
(* C21.  For a reply with a valid prefix whose status is a run of digits   *)
(* of any length, check_reply succeeds only if the decimal value of the    *)
(* run lies in 200..299: a run whose value is no 32-bit int, such as       *)
(* 4294967496 (200 modulo 2^32), is never a success.                       *)
(***************************************************************************)
\* The decimal value of a digit run lies in 200..299: without its leading
\* zeros the run is "2" and two more digits.
ValueIn2xx(digits) ==
  LET significant == DropLeading(digits, {"0"})
  IN  Len(significant) = 3 /\ significant[1] = "2"

C21_DecimalValueDecides ==
  LET buffer == BufferOf(pin)
      digits == StatusDigits(buffer)
  IN  (pres.done /\ ValidPrefix(buffer) /\ digits # << >>) =>
        (pres.ok => ValueIn2xx(digits))

=============================================================================
